---- MODULE Spec2Model ----
(***************************************************************************)
(* Ephemeris AGPL service: the HTTP handlers of src/app/api, the bearer    *)
(* authentication of src/app/core/auth.py, the angular arithmetic of       *)
(* src/app/core/angle.py and the design-time bisection solver of           *)
(* src/app/api/routes_design_time.py, as a state machine that serves one   *)
(* request per behaviour.                                                  *)
(*                                                                         *)
(* Numbers.  Julian days are IEEE doubles in the source.  All instants of  *)
(* one solver run lie in one binade, so they are modelled as integers      *)
(* counting the spacing of that binade, relative to an epoch that is a     *)
(* multiple of four spacings: differences are exact and the only rounding  *)
(* is the round-half-to-even of (start + end) / 2.0, which Mid reproduces. *)
(* The spacing is 2^-24 day (doubles in [2^28, 2^29)); at the test's       *)
(* 2451545.0 it is 2^-31 day, which TLC's 32-bit integers cannot hold for  *)
(* a 110-day window.  Angles are integers counting 2^-20 degree; a      *)
(* tolerance is given by its floor in that unit (0: below one unit).       *)
(*                                                                         *)
(* Spec serves one request after import and startup.  AngleSpec calls the  *)
(* functions of angle.py directly, on floats of any sign and size, with    *)
(* the rounding of float arithmetic (see normalize_angle_fp).  ThreadSpec  *)
(* runs initialize_ephemeris_path of src/app/core/swe.py in several        *)
(* threads, one statement at a time.  SessionSpec serves several positions *)
(* requests in one process, with the engine's sidereal mode kept between   *)
(* them as the Swiss Ephemeris library keeps it.                           *)
(***************************************************************************)
EXTENDS Integers, Sequences, FiniteSets, TLC

\* ------------------------------------------------------------- bounds
\* Search windows {min, max} are drawn from 0..MaxWindowDays (and the tests').
MaxWindowDays == 2
\* The largest iteration budget below the default of 80 that is explored.
MidIter == 12
\* Environment strings and bearer tokens have at most this many characters.
MaxEnvLen == 3
MaxTokenLen == 2
\* A positions request names at most this many bodies.
MaxBodies == 2
\* Significand bits of the floating-point format angle.py is run in.
FpPrecision == 10
\* Threads that call initialize_ephemeris_path, and calls each of them makes.
MaxThreads == 3
MaxEntries == 2
\* Positions requests one process serves one after the other.
MaxServed == 3

\* -------------------------------------------------------------- units
UnitsPerDay == 2^24
UnitsPerDegree == 2^20
FullCircle == 360 * UnitsPerDegree
HalfCircle == 180 * UnitsPerDegree
\* window_size < 1e-6 (days)  <=>  window_size < FloorUnits (spacings)
FloorUnits == ((UnitsPerDay - 1) \div 1000000) + 1

Abs(x) == IF x < 0 THEN -x ELSE x

Some(v) == <<v>>
None == <<>>

\* ------------------------------------------------- src/app/core/angle.py
normalize_angle(angle) ==
    LET normalized == angle % FullCircle
    IN  IF normalized < 0 THEN normalized + FullCircle ELSE normalized

angle_difference(angle1, angle2) ==
    LET diff == normalize_angle(angle1) - normalize_angle(angle2)
    IN  IF diff > HalfCircle THEN diff - FullCircle
        ELSE IF diff < -HalfCircle THEN diff + FullCircle
        ELSE diff

angle_within_tolerance(angle1, angle2, tolerance) ==
    Abs(angle_difference(angle1, angle2)) <= tolerance

\* ------------------------------- src/app/core/angle.py, in floating point
\* The functions above are exact on the solver's grid.  On arbitrary floats
\* every + and - rounds, which is modelled in a binary format of FpPrecision
\* significand bits with gradual underflow and round-half-to-even, as IEEE
\* doubles have with 53 bits.  A value is an integer count of the smallest
\* spacing, 1 / FpUnitsPerDegree degree; it is representable when it has at
\* most FpPrecision significant bits.
FpUnitsPerDegree == 2^4
FpDeg(d) == d * FpUnitsPerDegree

\* The spacing of the floats around n.
RECURSIVE FpUlp(_)
FpUlp(n) == IF Abs(n) < 2^FpPrecision THEN 1 ELSE 2 * FpUlp(Abs(n) \div 2)

FpRepresentable(n) == n % FpUlp(n) = 0

\* The float nearest to the exact value n, ties to the even significand.
FpRound(n) ==
    LET u == FpUlp(n)
        q == n \div u
        r == n % u
    IN  IF 2 * r < u THEN q * u
        ELSE IF 2 * r > u THEN (q + 1) * u
        ELSE IF q % 2 = 0 THEN q * u ELSE (q + 1) * u

\* C's fmod: exact, with the sign of x.
fmod(x, y) == IF x >= 0 THEN x % y ELSE -((-x) % y)

\* Python's float x % y for y > 0: fmod, and y added to a negative remainder.
float_rem(x, y) ==
    LET mod == fmod(x, y)
    IN  IF mod # 0 /\ mod < 0 THEN FpRound(mod + y) ELSE mod

normalize_angle_fp(angle) ==
    LET normalized == float_rem(angle, FpDeg(360))
    IN  IF normalized < 0 THEN FpRound(normalized + FpDeg(360)) ELSE normalized

\* Mutant: the wrap below -180 is left out.
angle_difference_fp_NoLowerWrap(angle1, angle2) ==
    LET diff == FpRound(normalize_angle_fp(angle1) - normalize_angle_fp(angle2))
    IN  IF diff > FpDeg(180) THEN FpRound(diff - FpDeg(360))
        ELSE diff

angle_difference_fp(angle1, angle2) ==
    LET diff == FpRound(normalize_angle_fp(angle1) - normalize_angle_fp(angle2))
    IN  IF diff > FpDeg(180) THEN FpRound(diff - FpDeg(360))
        ELSE IF diff < -FpDeg(180) THEN FpRound(diff + FpDeg(360))
        ELSE diff

angle_within_tolerance_fp(angle1, angle2, tolerance) ==
    Abs(angle_difference_fp(angle1, angle2)) <= tolerance

\* ------------------------------------------------ src/app/core/errors.py
BAD_REQUEST == "bad_request"
UNAUTHORIZED == "unauthorized"
NO_CONVERGENCE == "no_convergence"

EmptyDict == <<>>

HTTPException(status_code, code, message, details) ==
    [status_code |-> status_code,
     detail |-> [error |-> [code |-> code, message |-> message, details |-> details]]]

raise_bad_request(message, details) ==
    HTTPException(400, BAD_REQUEST, message, details)

raise_unauthorized(message) ==
    HTTPException(401, UNAUTHORIZED, message, EmptyDict)

\* Mutant: non-convergence raised with the bad-request helper.
raise_no_convergence_AsBadRequest(message, details) ==
    HTTPException(400, BAD_REQUEST, message, details)

raise_no_convergence(message, details) ==
    HTTPException(422, NO_CONVERGENCE, message, details)

\* -------------------------------------------------- src/app/core/auth.py
\* Strings are sequences of characters; an unset variable or an absent
\* header is None and a present one is Some(string).
Alphabet == {"a", "b", ",", " "}

RECURSIVE split(_, _)
\* str.split(sep): the pieces between the separators, empty pieces included.
split(str, sep) ==
    IF \A i \in 1..Len(str) : str[i] # sep
    THEN <<str>>
    ELSE LET i == CHOOSE j \in 1..Len(str) :
                      str[j] = sep /\ \A k \in 1..(j - 1) : str[k] # sep
         IN  <<SubSeq(str, 1, i - 1)>> \o split(SubSeq(str, i + 1, Len(str)), sep)

RECURSIVE lstrip(_)
lstrip(str) ==
    IF str # <<>> /\ Head(str) = " " THEN lstrip(Tail(str)) ELSE str

RECURSIVE rstrip(_)
rstrip(str) ==
    IF str # <<>> /\ str[Len(str)] = " "
    THEN rstrip(SubSeq(str, 1, Len(str) - 1))
    ELSE str

strip(str) == rstrip(lstrip(str))

\* os.getenv(a) or os.getenv(b): the first that is set and not empty.
getenv_or(environ, a, b) ==
    IF environ[a] # None /\ environ[a][1] # <<>> THEN environ[a] ELSE environ[b]

get_api_keys(environ) ==
    LET keys_str == getenv_or(environ, "AGPL_SERVICE_API_KEYS", "AGPL_SERVICE_API_KEY")
    IN  IF keys_str = None \/ keys_str[1] = <<>>
        THEN <<>>
        ELSE LET parts == split(keys_str[1], ",")
             IN  SelectSeq([i \in 1..Len(parts) |-> strip(parts[i])],
                           LAMBDA key : key # <<>>)

\* Mutant: only the first configured key is compared.
verify_token_FirstKeyOnly(environ, token) ==
    LET api_keys == get_api_keys(environ)
    IN  IF api_keys = <<>> THEN TRUE ELSE api_keys[1] = token

verify_token(environ, token) ==
    LET api_keys == get_api_keys(environ)
    IN  IF api_keys = <<>>
        THEN TRUE
        ELSE \E i \in 1..Len(api_keys) : api_keys[i] = token

\* require_auth: None when the dependency lets the request through,
\* otherwise the HTTPException it raises.
require_auth(environ, credentials) ==
    IF credentials = None
    THEN Some(raise_unauthorized("Missing authorization header"))
    ELSE IF ~verify_token(environ, credentials[1])
         THEN Some(raise_unauthorized("Invalid authorization token"))
         ELSE None


\* ---------------------------------------------------- the ephemeris engine
\* swe.calc_ut for the Sun, an external collaborator: a function of the
\* instant.  "linear": lon0 at the epoch, advancing rate degrees per day;
\* "step": one longitude before the instant thr and another from it on.
AngleStep == UnitsPerDay \div UnitsPerDegree

calc_ut(engine, jd_ut) ==
    IF engine.kind = "linear"
    THEN normalize_angle(engine.lon0 + engine.rate * (jd_ut \div AngleStep))
    ELSE IF jd_ut < engine.thr THEN engine.before ELSE engine.after

\* ------------------------------------ src/app/api/routes_design_time.py
\* (search_start_jd + search_end_jd) / 2.0 in doubles: the sum of two
\* instants of one binade is exact when even and otherwise rounds to the
\* neighbour whose half is even (round-half-to-even); the halving is exact.
\* The sum is start + start + (end - start), written so for 32-bit integers.
Mid(search_start_jd, search_end_jd) ==
    LET width == search_end_jd - search_start_jd
        lo == search_start_jd + ((width - 1) \div 2)
    IN  IF width % 2 = 0 THEN search_start_jd + (width \div 2)
        ELSE IF lo % 2 = 0 THEN lo ELSE lo + 1

\* Mutant: an empty window (min = max) passes the validation.
InvalidWindow_Strict(search_window_days) == search_window_days.min > search_window_days.max

\* request.search_window_days.min >= request.search_window_days.max
InvalidWindow(search_window_days) == search_window_days.min >= search_window_days.max

\* Mutant: the loop runs once more than the budget.
WithinBudget_OffByOne(iters, max_iter) == iters <= max_iter

\* while iterations < request.max_iter
WithinBudget(iters, max_iter) == iters < max_iter

\* Mutant: the final check never rejects.
ExceedsTolerance_Never(delta, tolerance_deg) == FALSE

\* delta > request.tolerance_deg
ExceedsTolerance(delta, tolerance_deg) == delta > tolerance_deg

\* "search_window_days.min must be less than search_window_days.max"
InvalidWindowError ==
    raise_bad_request("search_window_days.min must be less than search_window_days.max",
                      EmptyDict)

\* search_start_jd = request.birth_jd_ut - request.search_window_days.max
SearchStart(body) == body.birth_jd_ut - body.search_window_days.max * UnitsPerDay

\* Mutant: the later bound is the birth itself, whatever the window's min.
SearchEnd_AtBirth(body) == body.birth_jd_ut

\* search_end_jd = request.birth_jd_ut - request.search_window_days.min
SearchEnd(body) == body.birth_jd_ut - body.search_window_days.min * UnitsPerDay

\* window_size < 1e-6
BelowFloor(window_size) == window_size < FloorUnits

\* abs(diff) <= request.tolerance_deg
Converged(diff, tolerance_deg) == Abs(diff) <= tolerance_deg

\* Mutant: the search moves to the later half when the Sun is ahead.
Steer_Swapped(diff, search_start_jd, search_end_jd, mid_jd) ==
    IF diff > 0
    THEN <<mid_jd, search_end_jd>>
    ELSE <<search_start_jd, mid_jd>>

\* The bound the non-accepting midpoint replaces: <<start, end>> afterwards.
Steer(diff, search_start_jd, search_end_jd, mid_jd) ==
    IF diff > 0
    THEN <<search_start_jd, mid_jd>>
    ELSE <<mid_jd, search_end_jd>>

WindowDetails(body, iters) ==
    [iterations |-> iters,
     tolerance_deg |-> body.tolerance_deg,
     search_window_days |-> [min |-> body.search_window_days.min,
                             max |-> body.search_window_days.max]]

DeltaDetails(body, iters, delta) ==
    [iterations |-> iters, delta_deg |-> delta, tolerance_deg |-> body.tolerance_deg]

\* Mutant: the iterations are reported counting from 0.
DesignTimeResponse_ZeroBased(body, design, target, achieved, delta, iters) ==
    [status_code |-> 200,
     headers |-> {"X-AGPL-Source"},
     json |-> [birth_jd_ut |-> body.birth_jd_ut,
               design_jd_ut |-> design,
               target_sun_lon |-> target,
               achieved_sun_lon |-> achieved,
               delta_deg |-> delta,
               iterations |-> iters - 1]]

DesignTimeResponse(body, design, target, achieved, delta, iters) ==
    [status_code |-> 200,
     headers |-> {"X-AGPL-Source"},
     json |-> [birth_jd_ut |-> body.birth_jd_ut,
               design_jd_ut |-> design,
               target_sun_lon |-> target,
               achieved_sun_lon |-> achieved,
               delta_deg |-> delta,
               iterations |-> iters]]


\* -------------------------------------------------- src/app/core/swe.py
BODY_CODES ==
    {"Sun", "Moon", "Mercury", "Venus", "Mars", "Jupiter", "Saturn", "Uranus",
     "Neptune", "Pluto", "TrueNode", "MeanNode", "Chiron", "Ceres", "Pallas",
     "Juno", "Vesta", "MeanLilith", "OscLilith", "Lilith"}

HOUSE_SYSTEMS ==
    {"P", "K", "R", "C", "E", "V", "W", "X", "H", "T", "M", "B", "Y", "O"}

\* The module's globals: the flag _ephe_path_initialized, and how often
\* swe.set_ephe_path has been called.
SweGlobals == [ephe_path_initialized |-> FALSE, set_ephe_path_calls |-> 0]

\* Mutant: the path is set on every call.
initialize_ephemeris_path_Unguarded(globals) ==
    [ephe_path_initialized |-> TRUE,
     set_ephe_path_calls |-> globals.set_ephe_path_calls + 1]

initialize_ephemeris_path(globals) ==
    IF globals.ephe_path_initialized
    THEN globals
    ELSE [ephe_path_initialized |-> TRUE,
          set_ephe_path_calls |-> globals.set_ephe_path_calls + 1]

\* n calls of initialize_ephemeris_path, one after the other.
RECURSIVE initialize_times(_, _)
initialize_times(globals, n) ==
    IF n = 0 THEN globals
    ELSE initialize_times(initialize_ephemeris_path(globals), n - 1)

\* Mutant: the south node is taken from the mean node.
BaseBody_MeanNode(body_name) ==
    IF body_name = "Selena" \/ body_name = "WhiteMoon" THEN "MeanLilith"
    ELSE IF body_name = "SouthNode" THEN "MeanNode"
    ELSE body_name

\* The body calculate_positions asks the engine for, per requested name.
BaseBody(body_name) ==
    IF body_name = "Selena" \/ body_name = "WhiteMoon" THEN "MeanLilith"
    ELSE IF body_name = "SouthNode" THEN "TrueNode"
    ELSE body_name

\* The engine's sidereal mode when no request has set one, and one other.
SE_SIDM_FAGAN_BRADLEY == 0
SE_SIDM_LAHIRI == 1

\* calculate_positions 170-173: a sidereal request that names an ayanamsa
\* sets the engine's mode, which stays set.
set_sid_mode(sidereal, ayanamsa, mode) ==
    IF sidereal /\ ayanamsa # None THEN ayanamsa[1] ELSE mode

\* The loop of calculate_positions from body i on: answers[i] is what
\* swe.calc_ut gives for the i-th body ([ok, lon]; ~ok is retflag < 0).
\* error is None or the ValueError's message; n counts the engine calls.
RECURSIVE calculate_positions(_, _, _, _, _)
calculate_positions(bodies, answers, i, positions, n) ==
    IF i > Len(bodies)
    THEN [error |-> None, positions |-> positions, calls |-> n]
    ELSE LET body_name == bodies[i]
         IN  IF BaseBody(body_name) \notin BODY_CODES
             THEN [error |-> Some("Unsupported body"), positions |-> positions, calls |-> n]
             ELSE IF ~answers[i].ok
             THEN [error |-> Some("Swiss Ephemeris error"), positions |-> positions,
                   calls |-> n + 1]
             ELSE LET longitude ==
                          IF BaseBody(body_name) # body_name
                          THEN (answers[i].lon + HalfCircle) % FullCircle
                          ELSE answers[i].lon
                  IN  calculate_positions(bodies, answers, i + 1,
                          [b \in (DOMAIN positions) \cup {body_name} |->
                               IF b = body_name THEN longitude ELSE positions[b]],
                          n + 1)

\* Mutant: the engine's cusps are returned without the leading 0.
calculate_houses_NoPrepend(house_system, answer) ==
    IF house_system \notin HOUSE_SYSTEMS
    THEN [error |-> Some("Unsupported house system"), calls |-> 0]
    ELSE IF ~answer.ok
    THEN [error |-> Some("swisseph.Error"), calls |-> 1]
    ELSE [error |-> None, calls |-> 1,
          cusps_list |-> answer.cusps,
          angles |-> [asc |-> answer.asc, mc |-> answer.mc]]

\* calculate_houses: answer is what swe.houses gives ([ok, cusps, asc, mc]).
calculate_houses(house_system, answer) ==
    IF house_system \notin HOUSE_SYSTEMS
    THEN [error |-> Some("Unsupported house system"), calls |-> 0]
    ELSE IF ~answer.ok
    THEN [error |-> Some("swisseph.Error"), calls |-> 1]
    ELSE [error |-> None, calls |-> 1,
          cusps_list |-> <<0>> \o answer.cusps,
          angles |-> [asc |-> answer.asc, mc |-> answer.mc]]

\* ------------------------------------- src/app/api/routes_positions.py
PositionsResponse(body, sidereal, positions) ==
    [status_code |-> 200,
     headers |-> {"X-AGPL-Source"},
     json |-> [jd_ut |-> body.jd_ut,
               positions |-> [b \in DOMAIN positions |-> normalize_angle(positions[b])],
               meta |-> [engine |-> "swisseph", sidereal |-> sidereal]]]

positions_endpoint(body, answers, mode) ==
    LET flags == body.flags
        sidereal == IF flags # None THEN flags[1].sidereal ELSE FALSE
        ayanamsa == IF flags # None THEN flags[1].ayanamsa ELSE None
        got == calculate_positions(body.bodies, answers, 1, <<>>, 0)
    IN  [calls |-> got.calls,
         sid_mode |-> set_sid_mode(sidereal, ayanamsa, mode),
         inits |-> got.calls + (IF got.error = Some("Unsupported body") THEN 1 ELSE 0),
         response |->
            IF got.error = None
            THEN PositionsResponse(body, sidereal, got.positions)
            ELSE IF got.error[1] = "Unsupported body"
            THEN raise_bad_request(got.error[1],
                                   [code |-> "unsupported_body", bodies |-> body.bodies])
            ELSE raise_bad_request(got.error[1], EmptyDict)]

\* ---------------------------------------- src/app/api/routes_houses.py
HousesResponse(body, cusps_raw, angles_raw) ==
    [status_code |-> 200,
     headers |-> {"X-AGPL-Source"},
     json |-> [jd_ut |-> body.jd_ut,
               house_system |-> body.house_system,
               cusps |-> [i \in 1..Len(cusps_raw) |-> normalize_angle(cusps_raw[i])],
               angles |-> [asc |-> normalize_angle(angles_raw.asc),
                           mc |-> normalize_angle(angles_raw.mc)]]]

houses_endpoint(body, answer) ==
    LET got == calculate_houses(body.house_system, answer)
    IN  [calls |-> got.calls,
         inits |-> 1,
         response |->
            IF got.error = None
            THEN HousesResponse(body, got.cusps_list, got.angles)
            ELSE IF got.error[1] = "Unsupported house system"
            THEN raise_bad_request(got.error[1],
                                   [code |-> "invalid_house_system",
                                    house_system |-> body.house_system])
            ELSE raise_bad_request("Calculation error", EmptyDict)]

\* ------------------------------------------ src/app/api/routes_meta.py
HealthResponse == [status_code |-> 200, json |-> [ok |-> TRUE]]

VersionResponse ==
    [status_code |-> 200,
     json |-> [service |-> "ephemeris-agpl-service", api_version |-> "v1"]]

SourceResponse ==
    [status_code |-> 200, json |-> [license |-> "AGPL-3.0"]]

\* The routes declared with Depends(require_auth).
ProtectedEndpoints == {"/v1/positions", "/v1/houses", "/v1/design-time"}
MetaEndpoints == {"/health", "/v1/version", "/v1/source"}

\* ================================================================ state
VARIABLES
    environ,            \* os.environ: the two API-key variables
    engine,             \* the ephemeris engine's Sun (see calc_ut)
    request,            \* [endpoint, credentials, body] being served
    pc,                 \* the handler's position
    response,           \* the HTTP response, once pc = "done"
    calls,              \* calculate_sun_position calls made so far
    failed_call,        \* 0, or the number of the call the engine failed
    hits,               \* candidates evaluated within tolerance of the target
    accepted_by,        \* "none", or the branch that accepted: "floor", "mid"
    birth_sun_lon, target_sun_lon,
    search_start_jd, search_end_jd,
    iterations, design_jd_ut, achieved_sun_lon,
    swe_globals,        \* swe.py's module state (see SweGlobals)
    engine_log,         \* what swe.calc_ut / swe.houses were asked and answered
    angle_call,         \* a direct call of an angle.py function: [fn, args, result]
    threads,            \* threads inside initialize_ephemeris_path: [pc, returns] each
    sid_mode,           \* the engine's sidereal mode, as swe.set_sid_mode left it
    served              \* the positions requests served so far, with their answers

vars == <<environ, engine, request, pc, response, calls, failed_call, hits, accepted_by,
          birth_sun_lon, target_sun_lon, search_start_jd, search_end_jd,
          iterations, design_jd_ut, achieved_sun_lon, swe_globals, engine_log,
          angle_call, threads, sid_mode, served>>

locals == <<birth_sun_lon, target_sun_lon, search_start_jd, search_end_jd,
            iterations, design_jd_ut, achieved_sun_lon>>

\* --------------------------------------------------------------- inputs
Deg(d) == d * UnitsPerDegree
Days(d) == d * UnitsPerDay

\* SearchWindowDays: min and max are integers >= 0.
Windows ==
    {[min |-> a, max |-> b] : a \in 0..MaxWindowDays, b \in 0..MaxWindowDays}
    \cup {[min |-> 70, max |-> 110], [min |-> 110, max |-> 70]}

\* tolerance_deg > 0, by its floor in angle units: below one unit, 0.0001
\* and 0.01 degree.
Tolerances == {0, 104, 10485}

\* max_iter > 0; 80 is the default.
DefaultMaxIter == 80
MaxIters == {1, 5, MidIter, DefaultMaxIter}

Offsets == {0, Deg(1), Deg(88)}

\* birth_jd_ut >= 0, in spacings from the epoch: an even and an odd one.
BirthJds == {0, 1}

\* "step" engines put a single instant of the window within tolerance: the
\* window's end (thr 0, offset 0), an instant three spacings before it, and
\* the start of a one-day window (offset 88).
Engines ==
    {[kind |-> "linear", lon0 |-> Deg(100), rate |-> r] : r \in {-1, 0, 1, 16}}
    \cup {[kind |-> "step", thr |-> t, before |-> Deg(10), after |-> Deg(100)] :
            t \in {-3, 0}}
    \cup {[kind |-> "step", thr |-> 1 - Days(1), before |-> Deg(12), after |-> Deg(100)]}

DesignTimeRequests ==
    [birth_jd_ut : BirthJds,
     sun_offset_deg : Offsets,
     search_window_days : Windows,
     tolerance_deg : Tolerances,
     max_iter : MaxIters]

BodyNames == {"Sun", "Lilith", "Selena", "SouthNode", "Vulcan"}

PositionsRequests ==
    [jd_ut : {0},
     bodies : UNION {[1..k -> BodyNames] : k \in 0..MaxBodies},
     flags : {None, Some([sidereal |-> TRUE, ayanamsa |-> None, include_speed |-> FALSE]),
              Some([sidereal |-> TRUE, ayanamsa |-> Some(SE_SIDM_LAHIRI),
                    include_speed |-> FALSE])},
     include_speed : {FALSE}]

HousesRequests ==
    [jd_ut : {0}, lat : {0}, lon : {0}, house_system : {"P", "X", "Q"}]

\* What swe.calc_ut and swe.houses may answer.
\* swe.calc_ut gives longitudes in [0, 360).
CalcAnswers == {[ok |-> FALSE, lon |-> 0], [ok |-> TRUE, lon |-> Deg(10)],
                [ok |-> TRUE, lon |-> Deg(200)], [ok |-> TRUE, lon |-> FullCircle - 1]}

HousesAnswers ==
    {[ok |-> FALSE, cusps |-> <<>>, asc |-> 0, mc |-> 0]}
    \cup {[ok |-> TRUE, cusps |-> [i \in 1..12 |-> (c + Deg(30) * (i - 1)) % FullCircle],
           asc |-> c, mc |-> (c + Deg(270)) % FullCircle] : c \in {0, Deg(350)}}

\* Environment values and bearer tokens: strings over Alphabet.
Strings(n) == UNION {[1..k -> Alphabet] : k \in 0..n}

Environs ==
    [AGPL_SERVICE_API_KEYS : {None} \cup {Some(str) : str \in Strings(MaxEnvLen)},
     AGPL_SERVICE_API_KEY : {None, Some(<<"b">>)}]

\* HTTPBearer(auto_error=False): None without a bearer header, otherwise the
\* non-empty token.
Credentials ==
    {None} \cup {Some(t) : t \in UNION {[1..k -> {"a", "b"}] : k \in 1..MaxTokenLen}}

TestToken == <<"a">>
TestEnviron == [AGPL_SERVICE_API_KEYS |-> Some(TestToken), AGPL_SERVICE_API_KEY |-> None]
TestEngine == [kind |-> "linear", lon0 |-> Deg(100), rate |-> 1]

DefaultBody(endpoint) ==
    IF endpoint = "/v1/design-time"
    THEN [birth_jd_ut |-> 0, sun_offset_deg |-> Deg(88),
          search_window_days |-> [min |-> 70, max |-> 110],
          tolerance_deg |-> 10485, max_iter |-> DefaultMaxIter]
    ELSE IF endpoint = "/v1/positions"
    THEN [jd_ut |-> 0, bodies |-> <<"Sun">>, flags |-> None, include_speed |-> FALSE]
    ELSE IF endpoint = "/v1/houses"
    THEN [jd_ut |-> 0, lat |-> 0, lon |-> 0, house_system |-> "P"]
    ELSE None

\* The environments of the tests: no key, an empty list, one key, two keys,
\* with and without the single-key variable.
TestEnvirons ==
    [AGPL_SERVICE_API_KEYS : {None, Some(<<>>), Some(TestToken), Some(<<"a", ",", "b">>)},
     AGPL_SERVICE_API_KEY : {None, Some(<<"b">>)}]

\* The requests explored: every credential against every environment on one
\* protected route and against the tests' environments on every route, with
\* the tests' bodies; and every body with the tests' token.
InitialRequests ==
    {[environ |-> e, engine |-> TestEngine,
      request |-> [endpoint |-> "/v1/positions", credentials |-> c,
                   body |-> DefaultBody("/v1/positions")]] :
        e \in Environs, c \in Credentials}
    \cup {[environ |-> e, engine |-> TestEngine,
           request |-> [endpoint |-> ep, credentials |-> c, body |-> DefaultBody(ep)]] :
            e \in TestEnvirons, c \in Credentials,
            ep \in ProtectedEndpoints \cup MetaEndpoints}
    \cup {[environ |-> TestEnviron, engine |-> g,
           request |-> [endpoint |-> "/v1/design-time", credentials |-> Some(TestToken),
                        body |-> body]] :
            g \in Engines, body \in DesignTimeRequests}
    \cup {[environ |-> TestEnviron, engine |-> TestEngine,
           request |-> [endpoint |-> "/v1/positions", credentials |-> Some(TestToken),
                        body |-> body]] :
            body \in PositionsRequests}
    \cup {[environ |-> TestEnviron, engine |-> TestEngine,
           request |-> [endpoint |-> "/v1/houses", credentials |-> Some(TestToken),
                        body |-> body]] :
            body \in HousesRequests}

Init ==
    /\ \E i \in InitialRequests :
          /\ environ = i.environ
          /\ engine = i.engine
          /\ request = i.request
    /\ pc = "import"
    /\ swe_globals = SweGlobals
    /\ engine_log = <<>>
    /\ angle_call = None
    /\ threads = <<>>
    /\ sid_mode = SE_SIDM_FAGAN_BRADLEY
    /\ served = <<>>
    /\ response = [status_code |-> 0]
    /\ calls = 0
    /\ failed_call = 0
    /\ hits = 0
    /\ accepted_by = "none"
    /\ birth_sun_lon = 0
    /\ target_sun_lon = 0
    /\ search_start_jd = 0
    /\ search_end_jd = 0
    /\ iterations = 0
    /\ design_jd_ut = None
    /\ achieved_sun_lon = None

\* Observer for hits: 1 when a longitude the engine gave lies within the
\* tolerance of the target on the circle, by distance the short way round.
Hit(lon, target, tolerance_deg) ==
    LET d == (lon - target) % FullCircle
    IN  IF d <= tolerance_deg \/ FullCircle - d <= tolerance_deg THEN 1 ELSE 0

\* The JSON body that is sent: the response model's fields, or for a raised
\* HTTPException its detail under the key "detail".
ResponseBody(r) == IF "json" \in DOMAIN r THEN r.json ELSE [detail |-> r.detail]

\* A handler ends by returning or raising: the response is sent.
Respond(r) ==
    /\ response' = r
    /\ pc' = "done"

\* -------------------------------------------------------------- actions
\* main.py 12-13: importing the application initializes the ephemeris path.
ImportMain ==
    /\ pc = "import"
    /\ swe_globals' = initialize_ephemeris_path(swe_globals)
    /\ pc' = "startup"
    /\ UNCHANGED <<threads, served, sid_mode, angle_call, environ, engine, request, response, engine_log, calls, failed_call, hits,
                   accepted_by, locals>>

\* main.py 52-57: the startup event initializes it again; then requests
\* are served.
StartupEvent ==
    /\ pc = "startup"
    /\ swe_globals' = initialize_ephemeris_path(swe_globals)
    /\ pc' = "recv"
    /\ UNCHANGED <<threads, served, sid_mode, angle_call, environ, engine, request, response, engine_log, calls, failed_call, hits,
                   accepted_by, locals>>

\* Depends(require_auth), before the handler's body runs.
RequireAuth ==
    /\ pc = "recv"
    /\ request.endpoint \in ProtectedEndpoints
    /\ LET denied == require_auth(environ, request.credentials)
       IN  IF denied # None
           THEN Respond(denied[1])
           ELSE /\ pc' = "handler"
                /\ UNCHANGED response
    /\ UNCHANGED <<threads, served, sid_mode, angle_call, environ, engine, request, swe_globals, engine_log, calls, failed_call, hits, accepted_by, locals>>

\* routes_design_time.py 38-42: validate the search window.
ValidateWindow ==
    /\ pc = "handler"
    /\ request.endpoint = "/v1/design-time"
    /\ IF InvalidWindow(request.body.search_window_days)
       THEN Respond(InvalidWindowError)
       ELSE /\ pc' = "birth"
            /\ UNCHANGED response
    /\ UNCHANGED <<threads, served, sid_mode, angle_call, environ, engine, request, swe_globals, engine_log, calls, failed_call, hits, accepted_by, locals>>

\* routes_design_time.py 44-61: the Sun at birth, the target, the interval.
\* The engine may fail any call (calculate_position raises).
QueryBirth ==
    /\ pc = "birth"
    /\ swe_globals' = initialize_ephemeris_path(swe_globals)
    /\ calls' = calls + 1
    /\ \E ok \in BOOLEAN :
          IF ~ok
          THEN /\ Respond(raise_bad_request("Error calculating birth Sun position", EmptyDict))
               /\ failed_call' = calls + 1
               /\ UNCHANGED locals
          ELSE LET lon == normalize_angle(calc_ut(engine, request.body.birth_jd_ut))
               IN  /\ birth_sun_lon' = lon
                   /\ target_sun_lon' = normalize_angle(lon - request.body.sun_offset_deg)
                   /\ search_start_jd' = SearchStart(request.body)
                   /\ search_end_jd' = SearchEnd(request.body)
                   /\ iterations' = 0
                   /\ design_jd_ut' = None
                   /\ achieved_sun_lon' = None
                   /\ pc' = "loop"
                   /\ UNCHANGED <<response, failed_call>>
    /\ UNCHANGED <<threads, served, sid_mode, angle_call, environ, engine, request, engine_log, hits, accepted_by>>

\* routes_design_time.py 63-68: the loop test, the count, the floor test.
LoopStep ==
    /\ pc = "loop"
    /\ IF WithinBudget(iterations, request.body.max_iter)
       THEN /\ iterations' = iterations + 1
            /\ pc' = IF BelowFloor(search_end_jd - search_start_jd) THEN "floor" ELSE "mid"
       ELSE /\ pc' = "final"
            /\ UNCHANGED iterations
    /\ UNCHANGED <<threads, served, sid_mode, angle_call, environ, engine, request, swe_globals, engine_log, response, calls, failed_call, hits,
                   accepted_by, birth_sun_lon, target_sun_lon, search_start_jd, search_end_jd,
                   design_jd_ut, achieved_sun_lon>>

\* routes_design_time.py 69-78: the small window's midpoint as candidate.
\* Out of tolerance, control falls through to the midpoint step below.
FloorCandidate ==
    /\ pc = "floor"
    /\ swe_globals' = initialize_ephemeris_path(swe_globals)
    /\ calls' = calls + 1
    /\ design_jd_ut' = Some(Mid(search_start_jd, search_end_jd))
    /\ \E ok \in BOOLEAN :
          IF ~ok
          THEN /\ Respond(raise_bad_request("Error calculating design Sun position", EmptyDict))
               /\ failed_call' = calls + 1
               /\ UNCHANGED <<achieved_sun_lon, hits, accepted_by>>
          ELSE LET lon == normalize_angle(calc_ut(engine, Mid(search_start_jd, search_end_jd)))
                   within == angle_within_tolerance(lon, target_sun_lon,
                                                    request.body.tolerance_deg)
               IN  /\ achieved_sun_lon' = Some(lon)
                   /\ hits' = hits + Hit(lon, target_sun_lon, request.body.tolerance_deg)
                   /\ accepted_by' = IF within THEN "floor" ELSE accepted_by
                   /\ pc' = IF within THEN "final" ELSE "mid"
                   /\ UNCHANGED <<response, failed_call>>
    /\ UNCHANGED <<threads, served, sid_mode, angle_call, environ, engine, request, engine_log, birth_sun_lon, target_sun_lon,
                   search_start_jd, search_end_jd, iterations>>

\* Mutant: the failed midpoint query is tried again.
MidpointFailed_Retry ==
    /\ pc' = "mid"
    /\ failed_call' = calls + 1
    /\ UNCHANGED <<response, search_start_jd, search_end_jd, design_jd_ut,
                   achieved_sun_lon, hits, accepted_by>>

\* routes_design_time.py 86-87: the midpoint query raised.
MidpointFailed ==
    /\ Respond(raise_bad_request("Error calculating mid Sun position", EmptyDict))
    /\ failed_call' = calls + 1
    /\ UNCHANGED <<search_start_jd, search_end_jd, design_jd_ut,
                   achieved_sun_lon, hits, accepted_by>>

\* routes_design_time.py 80-104: query the midpoint, accept it or steer.
Midpoint ==
    /\ pc = "mid"
    /\ swe_globals' = initialize_ephemeris_path(swe_globals)
    /\ calls' = calls + 1
    /\ \E ok \in BOOLEAN :
          IF ~ok
          THEN MidpointFailed
          ELSE LET mid_jd == Mid(search_start_jd, search_end_jd)
                   mid_sun_lon == normalize_angle(calc_ut(engine, mid_jd))
                   diff == angle_difference(mid_sun_lon, target_sun_lon)
                   next == Steer(diff, search_start_jd, search_end_jd, mid_jd)
               IN  /\ UNCHANGED <<response, failed_call>>
                   /\ hits' = hits + Hit(mid_sun_lon, target_sun_lon,
                                         request.body.tolerance_deg)
                   /\ IF Converged(diff, request.body.tolerance_deg)
                      THEN /\ design_jd_ut' = Some(mid_jd)
                           /\ achieved_sun_lon' = Some(mid_sun_lon)
                           /\ accepted_by' = "mid"
                           /\ pc' = "final"
                           /\ UNCHANGED <<search_start_jd, search_end_jd>>
                      ELSE /\ search_start_jd' = next[1]
                           /\ search_end_jd' = next[2]
                           /\ pc' = "loop"
                           /\ UNCHANGED <<design_jd_ut, achieved_sun_lon, accepted_by>>
    /\ UNCHANGED <<threads, served, sid_mode, angle_call, environ, engine, request, engine_log, birth_sun_lon, target_sun_lon, iterations>>

\* routes_design_time.py 106-142: no candidate, the final check, the result.
FinalCheck ==
    /\ pc = "final"
    /\ IF design_jd_ut = None \/ achieved_sun_lon = None
       THEN Respond(raise_no_convergence("Failed to find design time within max_iter iterations",
                                         WindowDetails(request.body, iterations)))
       ELSE LET delta == Abs(angle_difference(achieved_sun_lon[1], target_sun_lon))
            IN  IF ExceedsTolerance(delta, request.body.tolerance_deg)
                THEN Respond(raise_no_convergence("Failed to achieve tolerance",
                                 DeltaDetails(request.body, iterations, delta)))
                ELSE Respond(DesignTimeResponse(request.body, design_jd_ut[1], target_sun_lon,
                                                achieved_sun_lon[1], delta, iterations))
    /\ UNCHANGED <<threads, served, sid_mode, angle_call, environ, engine, request, swe_globals, engine_log, calls, failed_call, hits, accepted_by, locals>>

\* routes_positions.py: the whole handler; the engine answers each body.
CalculatePositions ==
    /\ pc = "handler"
    /\ request.endpoint = "/v1/positions"
    /\ \E answers \in [1..Len(request.body.bodies) -> CalcAnswers] :
          LET out == positions_endpoint(request.body, answers, sid_mode)
          IN  /\ Respond(out.response)
              /\ calls' = calls + out.calls
              /\ sid_mode' = out.sid_mode
              /\ swe_globals' = initialize_times(swe_globals, out.inits)
              /\ engine_log' = [i \in 1..out.calls |->
                                   [asked |-> BaseBody(request.body.bodies[i]),
                                    answer |-> answers[i]]]
    /\ UNCHANGED <<threads, served, angle_call, environ, engine, request, failed_call, hits, accepted_by, locals>>

\* routes_houses.py: the whole handler; the engine answers once.
CalculateHouses ==
    /\ pc = "handler"
    /\ request.endpoint = "/v1/houses"
    /\ \E answer \in HousesAnswers :
          LET out == houses_endpoint(request.body, answer)
          IN  /\ Respond(out.response)
              /\ calls' = calls + out.calls
              /\ swe_globals' = initialize_times(swe_globals, out.inits)
              /\ engine_log' = [i \in 1..out.calls |->
                                   [asked |-> request.body.house_system, answer |-> answer]]
    /\ UNCHANGED <<threads, served, sid_mode, angle_call, environ, engine, request, failed_call, hits, accepted_by, locals>>

\* routes_meta.py: no dependency, no engine.
HealthCheck ==
    /\ pc = "recv"
    /\ request.endpoint = "/health"
    /\ Respond(HealthResponse)
    /\ UNCHANGED <<threads, served, sid_mode, angle_call, environ, engine, request, swe_globals, engine_log, calls, failed_call, hits, accepted_by, locals>>

GetVersion ==
    /\ pc = "recv"
    /\ request.endpoint = "/v1/version"
    /\ Respond(VersionResponse)
    /\ UNCHANGED <<threads, served, sid_mode, angle_call, environ, engine, request, swe_globals, engine_log, calls, failed_call, hits, accepted_by, locals>>

GetSource ==
    /\ pc = "recv"
    /\ request.endpoint = "/v1/source"
    /\ Respond(SourceResponse)
    /\ UNCHANGED <<threads, served, sid_mode, angle_call, environ, engine, request, swe_globals, engine_log, calls, failed_call, hits, accepted_by, locals>>

Next ==
    \/ ImportMain
    \/ StartupEvent
    \/ RequireAuth
    \/ HealthCheck
    \/ GetVersion
    \/ GetSource
    \/ CalculatePositions
    \/ CalculateHouses
    \/ ValidateWindow
    \/ QueryBirth
    \/ LoopStep
    \/ FloorCandidate
    \/ Midpoint
    \/ FinalCheck

Spec == Init /\ [][Next]_vars

\* ------------------------------------------- angle.py called directly
\* The functions of angle.py on floats of any sign and size.
FpSample ==
    {sign * v : sign \in {-1, 1},
                v \in {n \in {0, 1, 2, 3, 5, FpDeg(10), FpDeg(90), FpDeg(180) - 4, FpDeg(180),
                              FpDeg(180) + 4, FpDeg(270), FpDeg(360) - 8, FpDeg(360),
                              FpDeg(360) + 8, FpDeg(540), FpDeg(720)} : FpRepresentable(n)}}

FpAngles ==
    {n \in (-FpDeg(1080))..FpDeg(1080) : FpRepresentable(n)}
    \cup {sign * FpRound(FpDeg(v)) : sign \in {-1, 1}, v \in {36000, 1000000, 100000000}}

FpTolerances == {0, 1, FpDeg(1)}

AngleCalls ==
    {[fn |-> "normalize_angle", args |-> <<x>>, result |-> None] : x \in FpAngles}
    \cup {[fn |-> "angle_difference", args |-> <<a, b>>, result |-> None] :
            a \in FpSample, b \in FpSample}
    \cup {[fn |-> "angle_within_tolerance", args |-> <<a, b, t>>, result |-> None] :
            a \in FpSample, b \in FpSample, t \in FpTolerances}

AngleInit ==
    /\ angle_call \in AngleCalls
    /\ threads = <<>>
    /\ sid_mode = SE_SIDM_FAGAN_BRADLEY
    /\ served = <<>>
    /\ environ = TestEnviron
    /\ engine = TestEngine
    /\ request = [endpoint |-> "/health", credentials |-> None, body |-> None]
    /\ pc = "angle.py"
    /\ swe_globals = SweGlobals
    /\ engine_log = <<>>
    /\ response = [status_code |-> 0]
    /\ calls = 0
    /\ failed_call = 0
    /\ hits = 0
    /\ accepted_by = "none"
    /\ birth_sun_lon = 0
    /\ target_sun_lon = 0
    /\ search_start_jd = 0
    /\ search_end_jd = 0
    /\ iterations = 0
    /\ design_jd_ut = None
    /\ achieved_sun_lon = None

Returned(v) ==
    /\ angle_call' = [angle_call EXCEPT !.result = Some(v)]
    /\ UNCHANGED <<environ, engine, request, pc, response, calls, failed_call, hits,
                   accepted_by, locals, swe_globals, engine_log, threads, sid_mode, served>>

NormalizeAngle ==
    /\ pc = "angle.py" /\ angle_call.result = None
    /\ angle_call.fn = "normalize_angle"
    /\ Returned(normalize_angle_fp(angle_call.args[1]))

AngleDifference ==
    /\ pc = "angle.py" /\ angle_call.result = None
    /\ angle_call.fn = "angle_difference"
    /\ Returned(angle_difference_fp(angle_call.args[1], angle_call.args[2]))

AngleWithinTolerance ==
    /\ pc = "angle.py" /\ angle_call.result = None
    /\ angle_call.fn = "angle_within_tolerance"
    /\ Returned(angle_within_tolerance_fp(angle_call.args[1], angle_call.args[2],
                                          angle_call.args[3]))

AngleNext ==
    \/ NormalizeAngle
    \/ AngleDifference
    \/ AngleWithinTolerance

AngleSpec == AngleInit /\ [][AngleNext]_vars

\* No request is being handled: the state of the handlers' variables in the
\* specifications that do not run a handler step by step.
NoRequest ==
    /\ environ = TestEnviron
    /\ engine = TestEngine
    /\ request = [endpoint |-> "/health", credentials |-> None, body |-> None]
    /\ response = [status_code |-> 0]
    /\ engine_log = <<>>
    /\ angle_call = None
    /\ calls = 0
    /\ failed_call = 0
    /\ hits = 0
    /\ accepted_by = "none"
    /\ birth_sun_lon = 0
    /\ target_sun_lon = 0
    /\ search_start_jd = 0
    /\ search_end_jd = 0
    /\ iterations = 0
    /\ design_jd_ut = None
    /\ achieved_sun_lon = None

\* ------------------------------------------------------------------
\* ThreadSpec: src/app/core/swe.py, initialize_ephemeris_path entered by
\* several threads.  The function takes no lock, so a thread can be
\* suspended between any two of its statements: the test of the flag
\* (line 66), swe.set_ephe_path (line 70) and the assignment of the flag
\* (line 71).  A thread's pc names the statement it executes next.
\* ------------------------------------------------------------------
ThreadIds == 1..MaxThreads

ThreadInit ==
    /\ NoRequest
    /\ pc = "threads"
    /\ swe_globals = SweGlobals
    /\ threads = [t \in ThreadIds |-> [pc |-> "if", entries |-> 0]]
    /\ sid_mode = SE_SIDM_FAGAN_BRADLEY
    /\ served = <<>>

ThreadUnchanged ==
    UNCHANGED <<environ, engine, request, pc, response, calls, failed_call, hits,
                accepted_by, locals, engine_log, angle_call, sid_mode, served>>

\* Lines 65-67: the thread enters the function and tests the flag; it
\* returns when the flag is set and goes on to line 69 otherwise.
TestFlag(t) ==
    /\ pc = "threads"
    /\ threads[t].pc = "if"
    /\ threads[t].entries < MaxEntries
    /\ threads' = [threads EXCEPT
                      ![t].entries = @ + 1,
                      ![t].pc = IF swe_globals.ephe_path_initialized
                                THEN "if" ELSE "set_ephe_path"]
    /\ UNCHANGED swe_globals
    /\ ThreadUnchanged

\* Lines 69-70: swe.set_ephe_path(sweph_path).
SetEphePath(t) ==
    /\ pc = "threads"
    /\ threads[t].pc = "set_ephe_path"
    /\ swe_globals' = [swe_globals EXCEPT !.set_ephe_path_calls = @ + 1]
    /\ threads' = [threads EXCEPT ![t].pc = "set_flag"]
    /\ ThreadUnchanged

\* Line 71: _ephe_path_initialized = True, and the function returns.
SetFlag(t) ==
    /\ pc = "threads"
    /\ threads[t].pc = "set_flag"
    /\ swe_globals' = [swe_globals EXCEPT !.ephe_path_initialized = TRUE]
    /\ threads' = [threads EXCEPT ![t].pc = "if"]
    /\ ThreadUnchanged

ThreadNext ==
    \/ \E t \in ThreadIds : TestFlag(t)
    \/ \E t \in ThreadIds : SetEphePath(t)
    \/ \E t \in ThreadIds : SetFlag(t)

ThreadSpec == ThreadInit /\ [][ThreadNext]_vars

\* ------------------------------------------------------------------
\* SessionSpec: one process serves several positions requests, one after
\* the other (routes_positions.py with swe.calculate_positions).  The
\* engine is fixed; what the library keeps between calls is the sidereal
\* mode that swe.set_sid_mode selected (swe.py line 173).
\* ------------------------------------------------------------------
\* The ayanamsa the engine subtracts in sidereal mode, by mode.
Ayanamsa(mode) == IF mode = SE_SIDM_LAHIRI THEN Deg(24) ELSE Deg(25)

\* swe.calc_ut under the flags calculate_positions built (lines 166-173).
swe_calc_ut(jd_ut, sidereal, mode) ==
    [ok |-> TRUE,
     lon |-> IF sidereal
             THEN normalize_angle(calc_ut(TestEngine, jd_ut) - Ayanamsa(mode))
             ELSE calc_ut(TestEngine, jd_ut)]

SessionRequests ==
    {body \in PositionsRequests :
        /\ body.jd_ut = 0
        /\ body.bodies \in {<<"Sun">>, <<"Selena">>}}

SessionInit ==
    /\ NoRequest
    /\ pc = "serving"
    /\ swe_globals = initialize_ephemeris_path(SweGlobals)
    /\ threads = <<>>
    /\ sid_mode = SE_SIDM_FAGAN_BRADLEY
    /\ served = <<>>

\* routes_positions.py: the whole handler, for an authorized request.
ServePositions ==
    /\ pc = "serving"
    /\ Len(served) < MaxServed
    /\ \E body \in SessionRequests :
          LET flags == body.flags
              sidereal == IF flags # None THEN flags[1].sidereal ELSE FALSE
              ayanamsa == IF flags # None THEN flags[1].ayanamsa ELSE None
              mode == set_sid_mode(sidereal, ayanamsa, sid_mode)
              answers == [i \in 1..Len(body.bodies) |->
                              swe_calc_ut(body.jd_ut, sidereal, mode)]
              out == positions_endpoint(body, answers, sid_mode)
          IN  /\ served' = Append(served, [body |-> body, response |-> out.response])
              /\ sid_mode' = out.sid_mode
              /\ calls' = calls + out.calls
              /\ swe_globals' = initialize_times(swe_globals, out.inits)
    /\ UNCHANGED <<environ, engine, request, pc, response, failed_call, hits,
                   accepted_by, locals, engine_log, angle_call, threads>>

SessionNext == ServePositions

SessionSpec == SessionInit /\ [][SessionNext]_vars


\* =============================================================== claims
DesignTime == request.endpoint = "/v1/design-time"
Done == pc = "done"
Authorized == require_auth(environ, request.credentials) = None
Succeeded == Done /\ response.status_code = 200
Failed(status_code, code) ==
    /\ Done
    /\ response.status_code = status_code
    /\ response.detail.error.code = code

\* C1: every successful design-time result reports delta_deg =
\* |shortest difference of achieved and target longitude|, at most the
\* tolerance and within 0..180 degrees, whichever branch accepted.
C1_SuccessWithinTolerance ==
    (DesignTime /\ Succeeded) =>
        LET j == response.json
            d == (j.achieved_sun_lon - j.target_sun_lon) % FullCircle
        IN  /\ j.delta_deg = (IF d <= HalfCircle THEN d ELSE FullCircle - d)
            /\ j.delta_deg <= request.body.tolerance_deg
            /\ 0 <= j.delta_deg /\ j.delta_deg <= HalfCircle

\* C1 witness: a success accepted by the small-window floor branch, after
\* midpoints that were not within tolerance.
C1_Witness_FloorAccept ==
    /\ DesignTime /\ Succeeded
    /\ accepted_by = "floor"
    /\ response.json.iterations > 20

\* C2: an authenticated design-time request whose window has min >= max
\* ends as the invalid-input error (400) and no engine call is ever made.
C2_InvalidWindowNoQuery ==
    (DesignTime /\ Authorized
        /\ request.body.search_window_days.min >= request.body.search_window_days.max) =>
        /\ calls = 0
        /\ pc \in {"import", "startup", "recv", "handler", "done"}
        /\ Done => Failed(400, BAD_REQUEST)

\* C2 witness: the empty window min = max was rejected.
C2_Witness_EmptyWindow ==
    /\ DesignTime /\ Authorized /\ Done
    /\ request.body.search_window_days.min = request.body.search_window_days.max
    /\ response.status_code = 400

C4_DistinctFailureKinds ==
    (DesignTime /\ Done /\ failed_call # 0) =>
        /\ ~ (/\ response.status_code = InvalidWindowError.status_code
              /\ response.detail.error.code = InvalidWindowError.detail.error.code)
        /\ response.detail.error.code # NO_CONVERGENCE

\* C5 (as claimed): every non-convergence outcome carries the iteration
\* count, the tolerance and the search-window bounds as detail.
C5_NonConvergenceDetail ==
    (DesignTime /\ Failed(422, NO_CONVERGENCE)) =>
        LET details == response.detail.error.details
        IN  /\ {"iterations", "tolerance_deg", "search_window_days"} \subseteq DOMAIN details
            /\ details.iterations = iterations
            /\ details.tolerance_deg = request.body.tolerance_deg
            /\ details.search_window_days = request.body.search_window_days

\* C7: a run whose engine answered every query and gave no candidate within
\* tolerance of the target ends as non-convergence (422, no_convergence),
\* never as success, and reports at most max_iter iterations.
C7_NoHitNoConvergence ==
    (DesignTime /\ Done /\ Authorized
        /\ request.body.search_window_days.min < request.body.search_window_days.max
        /\ failed_call = 0 /\ hits = 0) =>
        /\ Failed(422, NO_CONVERGENCE)
        /\ response.detail.error.details.iterations <= request.body.max_iter

\* C7 witness: scenario C (window 1..2 days, tolerance 0.0001 degree, five
\* iterations, the Sun advancing a degree a day, offset 88).
C7_Witness_ScenarioC ==
    /\ DesignTime /\ Failed(422, NO_CONVERGENCE)
    /\ request.body.search_window_days = [min |-> 1, max |-> 2]
    /\ request.body.tolerance_deg = 104
    /\ request.body.max_iter = 5
    /\ request.body.sun_offset_deg = Deg(88)
    /\ engine = TestEngine
    /\ hits = 0
    /\ response.detail.error.details.iterations = 5

C9_FailureStops ==
    failed_call # 0 =>
        /\ Done
        /\ response.status_code = 400
        /\ calls = failed_call

\* C9 witness: the floor branch's candidate query failed.
C9_Witness_FloorQueryFailed ==
    /\ DesignTime /\ Done
    /\ failed_call > 20
    /\ response.status_code = 400
    /\ response.detail.error.message = "Error calculating design Sun position"

\* C6: with a Sun advancing linearly at a positive rate, a window that
\* holds an instant whose longitude equals the target, a tolerance the
\* spacing of instants can resolve and a budget that bisects the window
\* down to it, the search never leaves the roots behind and ends as a
\* success within tolerance of the target.
\*
\* The algebraic roots: x angle steps before the birth with
\* rate * x = offset + k * 360 degrees; each root spans one angle step.
HasRoot(body, rate, from_jd, to_jd) ==
    \E k \in 0..((rate * body.search_window_days.max) \div 360) :
        LET turn == body.sun_offset_deg + k * FullCircle
            first == AngleStep * ((body.birth_jd_ut \div AngleStep) - (turn \div rate))
        IN  /\ turn % rate = 0
            /\ first <= to_jd
            /\ first + AngleStep - 1 >= from_jd

\* The instants over which the longitude moves by the tolerance.
ToleranceSpan(body, rate) == (body.tolerance_deg * AngleStep) \div rate

RECURSIVE Bisections(_, _)
\* The midpoints needed until half the interval is within span.
Bisections(width, span) ==
    IF width <= 2 * span THEN 1 ELSE 1 + Bisections((width + 1) \div 2, span)

C6_Precondition ==
    /\ DesignTime /\ Authorized
    /\ request.body.search_window_days.min < request.body.search_window_days.max
    /\ engine.kind = "linear" /\ engine.rate > 0
    /\ failed_call = 0
    /\ ToleranceSpan(request.body, engine.rate) >= 1
    /\ request.body.max_iter >=
          Bisections((request.body.search_window_days.max
                        - request.body.search_window_days.min) * UnitsPerDay,
                     ToleranceSpan(request.body, engine.rate))
    /\ HasRoot(request.body, engine.rate,
               request.body.birth_jd_ut - request.body.search_window_days.max * UnitsPerDay,
               request.body.birth_jd_ut - request.body.search_window_days.min * UnitsPerDay)

C6_LinearConverges ==
    C6_Precondition =>
        /\ pc \in {"loop", "floor", "mid", "final"} =>
              HasRoot(request.body, engine.rate, search_start_jd, search_end_jd)
        /\ Done =>
              /\ response.status_code = 200
              /\ response.json.delta_deg <= request.body.tolerance_deg
              /\ Hit(calc_ut(engine, response.json.design_jd_ut),
                     (calc_ut(engine, request.body.birth_jd_ut)
                        - request.body.sun_offset_deg) % FullCircle,
                     request.body.tolerance_deg) = 1

\* C6 witness: scenario A (window 70..110 days, tolerance 0.01 degree, the
\* Sun at 100 degrees advancing a degree a day, offset 88): the tenth
\* midpoint, 88.0078125 days before the birth, is accepted.
C6_Witness_ScenarioA ==
    /\ C6_Precondition /\ Succeeded
    /\ request.body.search_window_days = [min |-> 70, max |-> 110]
    /\ request.body.tolerance_deg = 10485
    /\ request.body.sun_offset_deg = Deg(88)
    /\ request.body.birth_jd_ut = 0
    /\ engine = TestEngine
    /\ response.json.target_sun_lon = Deg(12)
    /\ response.json.iterations = 10
    /\ response.json.design_jd_ut = -(88 * UnitsPerDay + UnitsPerDay \div 128)

\* C10: with API keys configured, a request to a calculation endpoint
\* without a bearer token, or with one that is not in the configured list,
\* gets 401 and no engine call is made; one that carries any of the
\* configured keys is let through; the meta endpoints answer 200 whatever
\* the credentials.
\*
\* The configured list, read off the environment string: the pieces between
\* commas, without the blanks around them, that are not empty.
ConfiguredString ==
    IF environ.AGPL_SERVICE_API_KEYS # None /\ environ.AGPL_SERVICE_API_KEYS[1] # <<>>
    THEN environ.AGPL_SERVICE_API_KEYS[1]
    ELSE IF environ.AGPL_SERVICE_API_KEY # None
    THEN environ.AGPL_SERVICE_API_KEY[1]
    ELSE <<>>

IsKeyAt(str, i, j) ==
    /\ i <= j
    /\ \A k \in i..j : str[k] # ","
    /\ str[i] # " " /\ str[j] # " "
    /\ \E a \in 1..i : /\ (a = 1 \/ str[a - 1] = ",")
                       /\ \A k \in a..(i - 1) : str[k] = " "
    /\ \E b \in j..Len(str) : /\ (b = Len(str) \/ str[b + 1] = ",")
                              /\ \A k \in (j + 1)..b : str[k] = " "

ConfiguredKeys ==
    {SubSeq(ConfiguredString, i, j) :
        <<i, j>> \in {ij \in (1..Len(ConfiguredString)) \X (1..Len(ConfiguredString)) :
                        IsKeyAt(ConfiguredString, ij[1], ij[2])}}

C10_AuthOnCalculationEndpoints ==
    /\ (/\ request.endpoint \in ProtectedEndpoints
        /\ ConfiguredKeys # {}
        /\ (request.credentials = None \/ request.credentials[1] \notin ConfiguredKeys)) =>
            /\ calls = 0
            /\ pc \in {"import", "startup", "recv", "done"}
            /\ Done => Failed(401, UNAUTHORIZED)
    /\ (/\ request.endpoint \in ProtectedEndpoints
        /\ request.credentials # None
        /\ request.credentials[1] \in ConfiguredKeys) =>
            (Done => response.status_code \in {200, 400, 422})
    /\ request.endpoint \in MetaEndpoints =>
            /\ calls = 0
            /\ Done => response.status_code = 200

\* C10 witness: two keys configured and a token that is neither: 401, and
\* the engine was not called.
C10_Witness_WrongToken ==
    /\ request.endpoint = "/v1/positions" /\ Done
    /\ Cardinality(ConfiguredKeys) = 2
    /\ request.credentials # None
    /\ request.credentials[1] \notin ConfiguredKeys
    /\ response.status_code = 401
    /\ calls = 0

\* C11 (as claimed): an authenticated positions request naming "Lilith" is
\* answered 400 with a body whose top-level error object has code
\* "unsupported_body", and carries no positions (the engine answering for
\* every body it is asked about).
Positions == request.endpoint = "/v1/positions"
Names(bodies) == {bodies[i] : i \in DOMAIN bodies}
EngineFailed ==
    /\ "detail" \in DOMAIN response
    /\ response.detail.error.message \in {"Swiss Ephemeris error", "Calculation error"}

C11_LilithUnsupported ==
    (/\ Positions /\ Done /\ Authorized /\ ~EngineFailed
     /\ "Lilith" \in Names(request.body.bodies)) =>
        /\ response.status_code = 400
        /\ "positions" \notin DOMAIN ResponseBody(response)
        /\ "error" \in DOMAIN ResponseBody(response)
        /\ ResponseBody(response).error.code = "unsupported_body"

\* What the service answers for a name neither in BODY_CODES nor derived:
\* 400, no positions, and the code "unsupported_body" only in the details
\* of an error whose own code is "bad_request", under the key "detail".
C11_UnknownBodyAnswer ==
    (Positions /\ Done /\ Authorized /\ "Vulcan" \in Names(request.body.bodies)) =>
        /\ response.status_code = 400
        /\ DOMAIN ResponseBody(response) = {"detail"}
        /\ ResponseBody(response).detail.error.code = "bad_request"

\* C12 (as claimed): an authenticated houses request with house system "X"
\* is answered 400 with a body whose top-level error object has code
\* "invalid_house_system", and swe.houses is not called for it.
Houses == request.endpoint = "/v1/houses"

C12_XUnsupported ==
    (Houses /\ Done /\ Authorized /\ ~EngineFailed /\ request.body.house_system = "X") =>
        /\ calls = 0
        /\ response.status_code = 400
        /\ "error" \in DOMAIN ResponseBody(response)
        /\ ResponseBody(response).error.code = "invalid_house_system"

\* What the service answers for a system that is not in HOUSE_SYSTEMS: 400
\* without an engine call, the code "invalid_house_system" in the details of
\* an error whose own code is "bad_request", under the key "detail".
C12_UnknownSystemAnswer ==
    (Houses /\ Done /\ Authorized /\ request.body.house_system \notin HOUSE_SYSTEMS) =>
        /\ calls = 0
        /\ response.status_code = 400
        /\ DOMAIN ResponseBody(response) = {"detail"}
        /\ ResponseBody(response).detail.error.code = "bad_request"
        /\ ResponseBody(response).detail.error.details.code = "invalid_house_system"

\* C13: a successful positions response has exactly one entry per requested
\* name, each in [0, 360): the engine's longitude of that body, or for
\* Selena / WhiteMoon that of MeanLilith plus 180 and for SouthNode that of
\* TrueNode plus 180 (a name requested twice: the answer to its last query);
\* a response that is not a success carries no positions.
LastIndex(bodies, b) ==
    CHOOSE i \in DOMAIN bodies :
        bodies[i] = b /\ \A j \in DOMAIN bodies : j > i => bodies[j] # b

C13_OneEntryPerBody ==
    (Positions /\ Done) =>
        IF response.status_code = 200
        THEN LET bodies == request.body.bodies
                 positions == response.json.positions
             IN  /\ DOMAIN positions = Names(bodies)
                 /\ Len(engine_log) = Len(bodies)
                 /\ \A b \in Names(bodies) :
                       LET q == engine_log[LastIndex(bodies, b)]
                           plus == IF b \in {"Selena", "WhiteMoon", "SouthNode"}
                                   THEN HalfCircle ELSE 0
                       IN  /\ positions[b] \in 0..(FullCircle - 1)
                           /\ q.answer.ok
                           /\ q.asked = (IF b \in {"Selena", "WhiteMoon"} THEN "MeanLilith"
                                         ELSE IF b = "SouthNode" THEN "TrueNode" ELSE b)
                           /\ (positions[b] - q.answer.lon - plus) % FullCircle = 0
        ELSE "positions" \notin DOMAIN ResponseBody(response)

\* C13 witness: both derived points in one successful response, Selena's
\* longitude wrapped past 360 and SouthNode's at the top of the range.
C13_Witness_DerivedPoints ==
    /\ Positions /\ Succeeded
    /\ request.body.bodies = <<"Selena", "SouthNode">>
    /\ response.json.positions["Selena"] = Deg(20)
    /\ response.json.positions["SouthNode"] = HalfCircle - 1

\* C14: a successful houses response has 13 cusps, the first (house 0) being
\* 0 and the next twelve the engine's cusps in [0, 360), and asc and mc in
\* [0, 360), whichever supported house system was asked for.
C14_ThirteenCusps ==
    (Houses /\ Succeeded) =>
        LET cusps == response.json.cusps
            angles == response.json.angles
            given == engine_log[1].answer
        IN  /\ request.body.house_system \in HOUSE_SYSTEMS
            /\ Len(engine_log) = 1 /\ given.ok
            /\ Len(cusps) = 13
            /\ cusps[1] = 0
            /\ \A h \in 1..12 : /\ cusps[h + 1] \in 0..(FullCircle - 1)
                                /\ (cusps[h + 1] - given.cusps[h]) % FullCircle = 0
            /\ angles.asc \in 0..(FullCircle - 1) /\ (angles.asc - given.asc) % FullCircle = 0
            /\ angles.mc \in 0..(FullCircle - 1) /\ (angles.mc - given.mc) % FullCircle = 0

\* C14 witness: Placidus cusps starting at 350 degrees, the second house
\* past the wrap.
C14_Witness_Placidus ==
    /\ Houses /\ Succeeded
    /\ request.body.house_system = "P"
    /\ response.json.cusps[2] = Deg(350)
    /\ response.json.cusps[3] = Deg(20)
    /\ response.json.angles.mc = Deg(260)

\* C15 (as claimed): normalize_angle(x) lies in [0, 360) for every finite x,
\* and normalizing the result again gives the same.
ReturnedFrom(fn) == angle_call # None /\ angle_call.fn = fn /\ angle_call.result # None

C15_NormalizeInRange ==
    ReturnedFrom("normalize_angle") =>
        LET y == angle_call.result[1]
        IN  /\ 0 <= y /\ y < FpDeg(360)
            /\ normalize_angle_fp(y) = y

\* What holds instead: the result lies in [0, 360], and is 360 only for a
\* negative input of less than the spacing of the floats at 360.
C15_NormalizeClosedRange ==
    ReturnedFrom("normalize_angle") =>
        LET x == angle_call.args[1]
            y == angle_call.result[1]
        IN  /\ 0 <= y /\ y <= FpDeg(360)
            /\ y = FpDeg(360) => (x < 0 /\ -x < FpUlp(FpDeg(360)))

\* C16: angle_difference(a, b) lies in [-180, 180] and equals
\* -angle_difference(b, a), also for a and b exactly 180 degrees apart, and
\* angle_within_tolerance(a, b, tol) = angle_within_tolerance(b, a, tol).
C16_DifferenceAntisymmetric ==
    /\ ReturnedFrom("angle_difference") =>
          LET a == angle_call.args[1]
              b == angle_call.args[2]
              d == angle_call.result[1]
          IN  /\ -FpDeg(180) <= d /\ d <= FpDeg(180)
              /\ d = -angle_difference_fp(b, a)
    /\ ReturnedFrom("angle_within_tolerance") =>
          angle_call.result[1] = angle_within_tolerance_fp(angle_call.args[2],
                                                           angle_call.args[1],
                                                           angle_call.args[3])

\* C16 witness: 0 against 180 degrees gives -180, the end of the range.
C16_Witness_HalfTurn ==
    /\ ReturnedFrom("angle_difference")
    /\ angle_call.args = <<0, FpDeg(180)>>
    /\ angle_call.result = Some(-FpDeg(180))

\* C17: swe.set_ephe_path is called by the first initialize_ephemeris_path
\* only (the one at import), every later call (startup event, each
\* calculate_position and calculate_houses) leaves the module state as it
\* is, and no engine query is made before the flag is set.
C17_InitializedOnce ==
    /\ swe_globals.set_ephe_path_calls <= 1
    /\ swe_globals.ephe_path_initialized <=> swe_globals.set_ephe_path_calls = 1
    /\ pc \notin {"import", "angle.py"} => swe_globals.set_ephe_path_calls = 1
    /\ (calls > 0 \/ engine_log # <<>>) => swe_globals.ephe_path_initialized

\* C17 witness: a design-time run that queried the engine five times after
\* import and startup, with the path set once.
C17_Witness_ManyCalls ==
    /\ DesignTime /\ Done
    /\ calls >= 5
    /\ swe_globals = [ephe_path_initialized |-> TRUE, set_ephe_path_calls |-> 1]

\* C18 (as claimed): once the interval is narrower than 1e-6 day the
\* iteration that finds it so is the last, so a run makes at most one
\* iteration more than the halvings that take the window below the floor,
\* however large max_iter is.
RECURSIVE HalvingsToFloor(_)
HalvingsToFloor(width) ==
    IF width < FloorUnits THEN 0 ELSE 1 + HalvingsToFloor((width + 1) \div 2)

WindowWidth ==
    (request.body.search_window_days.max - request.body.search_window_days.min) * UnitsPerDay

C18_FloorBoundsIterations ==
    (DesignTime /\ WindowWidth > 0) => iterations <= HalvingsToFloor(WindowWidth) + 1

\* C19 (as claimed): every iteration makes exactly one engine query, so
\* after k completed iterations the engine has been queried k + 1 times
\* (the birth query and one per iteration).
C19_OneQueryPerIteration ==
    (DesignTime /\ pc \in {"loop", "final"}) => calls = iterations + 1

\* C20 (as claimed): throughout the loop search_start_jd < search_end_jd,
\* within the interval the loop started from.
InLoop == DesignTime /\ pc \in {"loop", "floor", "mid"}

C20_IntervalOrdered ==
    InLoop =>
        /\ search_start_jd < search_end_jd
        /\ SearchStart(request.body) <= search_start_jd
        /\ search_end_jd <= SearchEnd(request.body)

\* What holds of the interval: it stays within the one the loop started
\* from, with search_start_jd <= search_end_jd.
C20_IntervalNested ==
    InLoop =>
        /\ search_start_jd <= search_end_jd
        /\ SearchStart(request.body) <= search_start_jd
        /\ search_end_jd <= SearchEnd(request.body)

\* C21: the iterations a design-time answer reports, in a success or in the
\* detail of a non-convergence, lie in 1..max_iter; when a regular midpoint
\* was accepted they count the midpoints evaluated up to and including it,
\* and in a non-convergence (the budget is exhausted) they equal max_iter.
C21_IterationsReported ==
    /\ (DesignTime /\ Succeeded) =>
          LET n == response.json.iterations
          IN  /\ 1 <= n /\ n <= request.body.max_iter
              /\ n = iterations
              /\ accepted_by = "mid" => n = calls - 1
    /\ (DesignTime /\ Failed(422, NO_CONVERGENCE)) =>
          response.detail.error.details.iterations = request.body.max_iter

\* C21 witness: a midpoint accepted after several steerings, before the
\* budget ran out.
C21_Witness_AcceptedMidpoint ==
    /\ DesignTime /\ Succeeded
    /\ accepted_by = "mid"
    /\ response.json.iterations >= 5
    /\ response.json.iterations < request.body.max_iter

\* C22: under every interleaving of the threads that enter
\* initialize_ephemeris_path, swe.set_ephe_path is called at most once in
\* the process, and no two threads are both past the test of the flag.
C22_SetEphePathOnce ==
    pc = "threads" =>
        /\ swe_globals.set_ephe_path_calls <= 1
        /\ Cardinality({t \in DOMAIN threads : threads[t].pc # "if"}) <= 1

\* C23: the answer to a positions request is a function of the request:
\* two requests with the same jd_ut, bodies and flags served by one process
\* get the same answer, whatever was served between them.
C23_AnswerFromRequestOnly ==
    \A i, j \in DOMAIN served :
        served[i].body = served[j].body => served[i].response = served[j].response

\* C24: when the configured variable (AGPL_SERVICE_API_KEYS, or
\* AGPL_SERVICE_API_KEY when that is unset or empty) is a non-empty string,
\* a protected request whose bearer token is none of its comma-separated,
\* trimmed entries is answered 401: a value of only commas or spaces does
\* not open the service.  A request without credentials is answered 401
\* whatever the configuration.
C24_NonEmptyValueClosesService ==
    (Done /\ request.endpoint \in ProtectedEndpoints) =>
        /\ request.credentials = None => Failed(401, UNAUTHORIZED)
        /\ (/\ ConfiguredString # <<>>
            /\ request.credentials # None
            /\ request.credentials[1] \notin ConfiguredKeys)
           => Failed(401, UNAUTHORIZED)

====
